---------------------------- MODULE Spec2Model ----------------------------
(***************************************************************************)
(* A model of hexdoc's HTML book renderer (doc/src/collate_data.py):       *)
(* the markup emitter, get_format, write_block, write_page, the entry /    *)
(* category / table-of-contents / book renderers and generate_docs.        *)
(*                                                                         *)
(* Representation.  A Python str is a sequence of atoms.  An atom is a     *)
(* character ("#", ":", "\n", " ") or an indivisible run of characters     *)
(* that no operation of the code looks inside ("hello", "#SPOILER").       *)
(* The text written to the output stream is a sequence of tokens: an       *)
(* opening tag, a closing tag, a self-closing tag, escaped text, or the    *)
(* raw text of a print() call.  Attribute values are held escaped, as      *)
(* tag_args produces them; the quoting added by repr() is not modelled.    *)
(* A raised exception is a record [exc, arg]; NoErr means none was raised. *)
(***************************************************************************)
EXTENDS Integers, Sequences, FiniteSets, TLC

VARIABLES
    book,        \* the immutable part of the Book: name, landing_text, categories
    blacklist,   \* book.blacklist, a set of str
    spoilers,    \* book.spoilers, a set of str
    template,    \* the template argument of generate_docs, a str
    li,          \* generate_docs: index of the line the for loop is at
    output,      \* generate_docs: the contents of the StringIO buffer
    pc,          \* position of the control flow
    ci, ei, pi,  \* write_book / write_category / write_entry loop indices
    stack,       \* the PairTag context managers entered and not yet exited
    ret,         \* what generate_docs gave its caller
    visited,     \* history: the categories, entries and pages rendered for the current body
    bodyStart,   \* history: Len(output) when the current body started
    init0,       \* history: blacklist and spoilers before generate_docs ran
    blk,         \* write_block harness: the block rendered
    blkRes,      \* write_block harness: tokens written and the exception raised
    linkVal,     \* get_format harness: the value of the link style
    linkRes,     \* get_format harness: what get_format returned
    pageArg,     \* write_page harness: the pageid and the page rendered
    pageRes,     \* write_page harness: tokens written and the exception raised
    lang,        \* load_books: the lang argument, a language or None
    default_lang,\* load_books: props.default_lang
    per_lang,    \* load_books: the languages I18n.load_all finds, in its order
    i18ns,       \* load_books: the keys of the dict _load_i18n returned, in order
    books,       \* load_books: the keys of the books dict, in insertion order
    export_dir,  \* load_books: loader.export_dir
    lpc,         \* load_books: position of the control flow
    loaded       \* history: language and loader.export_dir of every _load_book call

vars == <<book, blacklist, spoilers, template, li, output, pc, ci, ei, pi, stack,
          ret, visited, bodyStart, init0, blk, blkRes, linkVal, linkRes,
          pageArg, pageRes, lang, default_lang, per_lang, i18ns, books, export_dir,
          lpc, loaded>>

docVars == <<book, blacklist, spoilers, template, li, output, pc, ci, ei, pi, stack,
             ret, visited, bodyStart, init0>>
blkVars == <<blk, blkRes>>
linkVars == <<linkVal, linkRes>>
pageVars == <<pageArg, pageRes>>
loadVars == <<lang, default_lang, per_lang, i18ns, books, export_dir, lpc, loaded>>

---------------------------------------------------------------------------
(* str operations *)

S(a) == <<a>>

StartsWith(s, p) == Len(p) <= Len(s) /\ SubSeq(s, 1, Len(p)) = p

\* p in s
Contains(s, p) == \E i \in 1..(Len(s) - Len(p) + 1) : SubSeq(s, i, i + Len(p) - 1) = p

\* s.replace(a, b) for one-character a
Replace(s, a, b) == [i \in 1..Len(s) |-> IF s[i] = a THEN b ELSE s[i]]

\* s.split(sep) for one-character sep: the pieces between separators, empty ones kept
RECURSIVE SplitOn(_, _)
SplitOn(s, sep) ==
    IF \A i \in 1..Len(s) : s[i] # sep THEN <<s>>
    ELSE LET i == CHOOSE i \in 1..Len(s) : s[i] = sep /\ \A j \in 1..(i - 1) : s[j] # sep
         IN  <<SubSeq(s, 1, i - 1)>> \o SplitOn(SubSeq(s, i + 1, Len(s)), sep)

Whitespace == {" ", "\t", "\n"}

\* s.split(): the maximal runs of non-whitespace
RECURSIVE SplitWS(_)
SplitWS(s) ==
    IF s = <<>> THEN <<>>
    ELSE IF s[1] \in Whitespace THEN SplitWS(Tail(s))
    ELSE LET stops == {i \in 1..Len(s) : s[i] \in Whitespace}
             n == IF stops = {} THEN Len(s)
                  ELSE (CHOOSE i \in stops : \A j \in stops : i <= j) - 1
         IN  <<SubSeq(s, 1, n)>> \o SplitWS(SubSeq(s, n + 1, Len(s)))

\* s.strip()
RECURSIVE Strip(_)
Strip(s) ==
    IF s = <<>> THEN s
    ELSE IF s[1] \in Whitespace THEN Strip(Tail(s))
    ELSE IF s[Len(s)] \in Whitespace THEN Strip(SubSeq(s, 1, Len(s) - 1))
    ELSE s

\* s.splitlines(True): the lines with their line ends kept
RECURSIVE SplitLines(_)
SplitLines(s) ==
    IF s = <<>> THEN <<>>
    ELSE IF \A i \in 1..Len(s) : s[i] # "\n" THEN <<s>>
    ELSE LET i == CHOOSE i \in 1..Len(s) : s[i] = "\n" /\ \A j \in 1..(i - 1) : s[j] # "\n"
         IN  <<SubSeq(s, 1, i)>> \o SplitLines(SubSeq(s, i + 1, Len(s)))

\* html.escape(s), quote=True
EscapeAtom(a) ==
    CASE a = "&" -> "&amp;"
      [] a = "<" -> "&lt;"
      [] a = ">" -> "&gt;"
      [] a = "\"" -> "&quot;"
      [] a = "'" -> "&#x27;"
      [] OTHER -> a

Escape(s) == [i \in 1..Len(s) |-> EscapeAtom(s[i])]

---------------------------------------------------------------------------
(* exceptions *)

NoErr == [exc |-> "none", arg |-> <<>>]
Raise(exc, arg) == [exc |-> exc, arg |-> arg]

---------------------------------------------------------------------------
(* Markup emitter: tag_args, PairTag, Empty, Stream *)

\* tag_args: kwargs is the keyword arguments in order, each <<key, str(value)>>
tag_args(kwargs) ==
    [i \in 1..Len(kwargs) |->
        <<IF kwargs[i][1] = S("clazz") THEN S("class") ELSE Replace(kwargs[i][1], "_", "-"),
          Escape(kwargs[i][2])>>]

\* PairTag.__init__
PairTag(name, kwargs) == [name |-> name, kwargs |-> tag_args(kwargs)]

\* Empty(): a context manager that writes nothing
Empty == [name |-> "", kwargs |-> <<>>]

\* PairTag.__enter__ / Empty.__enter__: what entering the context writes
Enter(tag) == IF tag = Empty THEN <<>>
              ELSE <<[k |-> "open", name |-> tag.name, attrs |-> tag.kwargs]>>

\* PairTag.__exit__ / Empty.__exit__: what leaving the context writes
Exit(tag) == IF tag = Empty THEN <<>> ELSE <<[k |-> "close", name |-> tag.name]>>

\* Stream.tag
StreamTag(name, kwargs) == <<[k |-> "tag", name |-> name, attrs |-> tag_args(kwargs)]>>

\* Stream.text
StreamText(txt) == <<[k |-> "text", txt |-> Escape(txt)]>>

\* Stream.pair_tag_if that enters the tag whatever the condition is.
pair_tag_always(cond, name, kwargs) == PairTag(name, kwargs)

\* Stream.pair_tag_if
pair_tag_if(cond, name, kwargs) == IF cond THEN PairTag(name, kwargs) ELSE Empty

\* The results of running code that writes to the stream: the tokens written
\* and the exception that ended it.
Ok(out) == [out |-> out, err |-> NoErr]
Fail(out, err) == [out |-> out, err |-> err]

\* Statements in sequence: the second runs only if the first did not raise.
Then(r1, r2) == IF r1.err # NoErr THEN r1 ELSE [out |-> r1.out \o r2.out, err |-> r2.err]

\* A with statement whose __exit__ is skipped when the body raises.
WithNoExitOnRaise(tag, body) ==
    [out |-> Enter(tag) \o body.out \o (IF body.err = NoErr THEN Exit(tag) ELSE <<>>),
     err |-> body.err]

\* "with tag: body".  __enter__ writes the opening tag, the body runs, and
\* __exit__ writes the closing tag whether or not the body raised; __exit__
\* returns None, so the exception goes on to the caller.
With(tag, body) == [out |-> Enter(tag) \o body.out \o Exit(tag), err |-> body.err]

\* Stream.empty_pair_tag
empty_pair_tag(name, kwargs) == With(PairTag(name, kwargs), Ok(<<>>))

---------------------------------------------------------------------------
(* Style formatter *)

\* The href with the "#" of a local anchor left as they are.
link_href_unescaped(value) ==
    IF ~Contains(value, <<":", "/", "/">>) THEN S("#") \o value ELSE value

\* get_format, the link style: the href
link_href(value) ==
    IF ~Contains(value, <<":", "/", "/">>) THEN S("#") \o Replace(value, "#", "@") ELSE value

\* An unknown style rendered as a bare span instead of raising.
UnknownFormatIgnored(ty) == [tag |-> PairTag("span", <<>>), err |-> NoErr]

\* get_format, no style matched: raise ValueError("Unknown format type: " + ty)
UnknownFormat(ty) == [tag |-> Empty, err |-> Raise("ValueError", S("Unknown format type: ") \o ty)]

\* get_format: [tag, err]
get_format(ty, value) ==
    CASE ty = S("para") -> [tag |-> PairTag("p", value), err |-> NoErr]
      [] ty = S("color") ->
            [tag |-> PairTag("span", <<<<S("style"), S("color: #") \o value>>>>), err |-> NoErr]
      [] ty = S("link") ->
            [tag |-> PairTag("a", <<<<S("href"), link_href(value)>>>>), err |-> NoErr]
      [] ty = S("tooltip") ->
            [tag |-> PairTag("span", <<<<S("clazz"), S("has-tooltip")>>, <<S("title"), value>>>>),
             err |-> NoErr]
      [] ty = S("cmd_click") ->
            [tag |-> PairTag("span", <<<<S("clazz"), S("has-cmd_click")>>,
                                       <<S("title"), S("When clicked, would execute: ") \o value>>>>),
             err |-> NoErr]
      [] ty = S("obf") ->
            [tag |-> PairTag("span", <<<<S("clazz"), S("obfuscated")>>>>), err |-> NoErr]
      [] ty = S("bold") -> [tag |-> PairTag("strong", <<>>), err |-> NoErr]
      [] ty = S("italic") -> [tag |-> PairTag("i", <<>>), err |-> NoErr]
      [] ty = S("strikethrough") -> [tag |-> PairTag("s", <<>>), err |-> NoErr]
      [] ty = S("underline") ->
            [tag |-> PairTag("span", <<<<S("style"), S("text-decoration: underline")>>>>),
             err |-> NoErr]
      [] OTHER -> UnknownFormat(ty)

---------------------------------------------------------------------------
(* Format tree walker.  A block is a str, [str |-> s], or a FormatTree,     *)
(* [style |-> [type, value], children |-> <<blocks>>].                      *)

Leaf(s) == [str |-> s]
Node(ty, value, children) == [style |-> [type |-> ty, value |-> value], children |-> children]
IsStr(block) == "str" \in DOMAIN block

\* write_block, the isinstance(block, str) branch
RECURSIVE WriteLines(_, _)
WriteLines(lines, first) ==
    IF lines = <<>> THEN <<>>
    ELSE (IF first THEN StreamTag("br", <<>>) ELSE <<>>)
         \o StreamText(Head(lines)) \o WriteLines(Tail(lines), TRUE)

RECURSIVE write_block(_)
RECURSIVE WriteChildren(_)
\* "for child in block.children: write_block(out, child)"
WriteChildren(children) ==
    IF children = <<>> THEN Ok(<<>>)
    ELSE LET r == write_block(Head(children))
         IN  IF r.err # NoErr THEN r ELSE Then(r, WriteChildren(Tail(children)))

write_block(block) ==
    IF IsStr(block) THEN Ok(WriteLines(SplitOn(block.str, "\n"), FALSE))
    ELSE IF block.style.type = S("base") THEN WriteChildren(block.children)
    ELSE LET f == get_format(block.style.type, block.style.value)
         IN  IF f.err # NoErr THEN Fail(<<>>, f.err)
             ELSE With(f.tag, WriteChildren(block.children))

---------------------------------------------------------------------------
(* Page renderer *)

\* "key" in d, for the dicts Page, Entry and Category
Has(d, key) == key \in DOMAIN d

\* one keyword argument
kw(key, value) == <<S(key), value>>

\* repo_names
repo_names == [modid \in {S("hexcasting")} |->
    S("https://raw.githubusercontent.com/gamma-delta/HexMod/main/Common/src/main/resources")]

anchor_toc ==
    With(PairTag("a", <<kw("href", S("#table-of-contents")), kw("clazz", S("permalink small")),
                        kw("title", S("Jump to top"))>>),
         empty_pair_tag("i", <<kw("clazz", S("bi bi-box-arrow-up"))>>))

permalink(link) ==
    With(PairTag("a", <<kw("href", link), kw("clazz", S("permalink small")),
                        kw("title", S("Permalink"))>>),
         empty_pair_tag("i", <<kw("clazz", S("bi bi-link-45deg"))>>))

\* 'if "text" in page: write_block(out, page["text"])'
OptText(page) == IF Has(page, "text") THEN write_block(page.text) ELSE Ok(<<>>)

\* the patchouli:crafting loop over page["item_name"]
RECURSIVE CraftingNames(_, _)
CraftingNames(names, first) ==
    IF names = <<>> THEN <<>>
    ELSE (IF ~first THEN StreamText(S(" and ")) ELSE <<>>)
         \o With(PairTag("code", <<>>), Ok(StreamText(Head(names)))).out
         \o CraftingNames(Tail(names), FALSE)

\* the hexcasting:crafting_multi loop over recipes[1:]
RECURSIVE MultiNames(_)
MultiNames(names) ==
    IF names = <<>> THEN <<>>
    ELSE StreamText(S(", ")) \o With(PairTag("code", <<>>), Ok(StreamText(Head(names)))).out
         \o MultiNames(Tail(names))

\* repo_names[modid]: a KeyError for a namespace that is not in the table
LookupRepo(modid) ==
    IF modid \in DOMAIN repo_names THEN [val |-> repo_names[modid], err |-> NoErr]
    ELSE [val |-> <<>>, err |-> Raise("KeyError", modid)]

\* the patchouli:image loop over page["images"]
RECURSIVE Images(_)
Images(imgs) ==
    IF imgs = <<>> THEN Ok(<<>>)
    ELSE LET parts == SplitOn(Head(imgs), ":")
         IN  IF Len(parts) # 2
             THEN Fail(<<>>, Raise("ValueError", S("unpack")))
             ELSE LET modid == parts[1]
                      coords == parts[2]
                      base == LookupRepo(modid)
                  IN  IF base.err # NoErr THEN Fail(<<>>, base.err)
                      ELSE Then(empty_pair_tag("img",
                                    <<kw("src", base.val \o S("/assets/") \o modid \o S("/") \o coords)>>),
                                Images(Tail(imgs)))

\* str.lower() of a compass direction
Lower(direction) ==
    CASE direction = S("EAST") -> S("east")
      [] direction = S("WEST") -> S("west")
      [] direction = S("NORTH_EAST") -> S("north_east")
      [] direction = S("NORTH_WEST") -> S("north_west")
      [] direction = S("SOUTH_EAST") -> S("south_east")
      [] direction = S("SOUTH_WEST") -> S("south_west")
      [] OTHER -> direction

\* the pattern loop over page["op"]
RECURSIVE Canvases(_)
Canvases(ops) ==
    IF ops = <<>> THEN <<>>
    ELSE LET pattern == Head(ops)
         IN  With(PairTag("canvas",
                     <<kw("clazz", S("spell-viz")), kw("width", S("216")), kw("height", S("216")),
                       <<(<<"data", "_", "string">>), pattern.angle_sig>>,
                       <<(<<"data", "_", "start">>), Lower(pattern.direction)>>,
                       <<(<<"data", "_", "per", "_", "world">>),
                         IF pattern.is_per_world THEN S("True") ELSE S("False")>>>>),
                  Ok(StreamText(
                       S("Your browser does not support visualizing patterns. Pattern code: ")
                       \o pattern.angle_sig))).out
             \o Canvases(Tail(ops))

PatternTypes == {S("hexcasting:pattern"), S("hexcasting:manual_pattern_nosig"),
                 S("hexcasting:manual_pattern")}

\* An unknown page type treated like an unknown style: a ValueError.
MissingProcessorRaises(ty) == Fail(<<>>, Raise("ValueError", S("Unknown page type: ") \o ty))

\* the else branch of write_page: a page type with no processor
MissingProcessor(ty) ==
    With(PairTag("p", <<kw("clazz", S("todo-note"))>>),
         Ok(StreamText(<<"TODO: ", "Missing processor for type: ">> \o ty)))

\* write_page, the dispatch on page["type"]
PageBody(page, hasAnchor, anchor_id) ==
    LET ty == page.type
    IN  CASE ty = S("patchouli:text") -> write_block(page.text)
          [] ty = S("patchouli:empty") -> Ok(<<>>)
          [] ty = S("patchouli:link") ->
                Then(write_block(page.text),
                     With(PairTag("h4", <<kw("clazz", S("linkout"))>>),
                          With(PairTag("a", <<kw("href", page.url)>>),
                               Ok(StreamText(page.link_text)))))
          [] ty = S("patchouli:spotlight") ->
                Then(With(PairTag("h4", <<kw("clazz", S("spotlight-title page-header"))>>),
                          Ok(StreamText(page.item_name))),
                     OptText(page))
          [] ty = S("patchouli:crafting") ->
                Then(With(PairTag("blockquote", <<kw("clazz", S("crafting-info"))>>),
                          Ok(StreamText(S("Depicted in the book: The crafting recipe for the "))
                             \o CraftingNames(page.item_name, TRUE)
                             \o StreamText(S(".")))),
                     OptText(page))
          [] ty = S("patchouli:image") ->
                Then(With(PairTag("p", <<kw("clazz", S("img-wrapper"))>>), Images(page.images)),
                     OptText(page))
          [] ty = S("hexcasting:crafting_multi") ->
                Then(With(PairTag("blockquote", <<kw("clazz", S("crafting-info"))>>),
                          Ok(StreamText(S("Depicted in the book: Several crafting recipes, for the "))
                             \o With(PairTag("code", <<>>), Ok(StreamText(Head(page.item_name)))).out
                             \o MultiNames(Tail(page.item_name))
                             \o StreamText(S(".")))),
                     OptText(page))
          [] ty = S("hexcasting:brainsweep") ->
                Then(With(PairTag("blockquote", <<kw("clazz", S("crafting-info"))>>),
                          Ok(StreamText(S("Depicted in the book: A mind-flaying recipe producing the "))
                             \o With(PairTag("code", <<>>), Ok(StreamText(page.output_name))).out
                             \o StreamText(S(".")))),
                     OptText(page))
          [] ty \in PatternTypes ->
                LET inp == IF Has(page, "input") THEN page.input ELSE <<>>
                    oup == IF Has(page, "output") THEN page.output ELSE <<>>
                    \* the atom "->" stands for the arrow U+2192
                    pipe == Strip(inp \o <<" ", "->", " ">> \o oup)
                    suffix == IF inp # <<>> \/ oup # <<>>
                              THEN S(" (") \o pipe \o S(")") ELSE <<>>
                    title == IF Has(page, "name")
                             THEN With(PairTag("h4", <<kw("clazz", S("pattern-title"))>>),
                                       Then(Ok(StreamText(page.name \o suffix)),
                                            IF hasAnchor THEN permalink(S("#") \o anchor_id)
                                            ELSE Ok(<<>>)))
                             ELSE Ok(<<>>)
                IN  Then(title,
                    Then(With(PairTag("details", <<kw("clazz", S("spell-collapsible"))>>),
                              Then(empty_pair_tag("summary", <<kw("clazz", S("collapse-spell"))>>),
                                   Ok(Canvases(page.op)))),
                         write_block(page.text)))
          [] OTHER -> Then(MissingProcessor(ty), OptText(page))

\* write_page
write_page(pageid, page) ==
    LET hasAnchor == Has(page, "anchor") /\ page.anchor # <<>>
        anchor_id == IF hasAnchor THEN pageid \o S("@") \o page.anchor ELSE <<>>
        header == IF Has(page, "header") \/ Has(page, "title")
                  THEN With(PairTag("h4", <<>>),
                            Then(Ok(StreamText(IF Has(page, "header") THEN page.header
                                               ELSE page.title)),
                                 IF hasAnchor THEN permalink(S("#") \o anchor_id)
                                 ELSE Ok(<<>>)))
                  ELSE Ok(<<>>)
    IN  Then(With(pair_tag_if(hasAnchor, "div", <<kw("id", anchor_id)>>),
                  Then(header, PageBody(page, hasAnchor, anchor_id))),
             Ok(StreamTag("br", <<>>)))

---------------------------------------------------------------------------
(* Entry / category / table of contents renderers *)

\* entry_spoilered.  entry.get("advancement", None) is None for an entry
\* without the key, and None is in no set of str.
entry_spoilered(spoilerSet, entry) ==
    IF Has(entry, "advancement") THEN entry.advancement \in spoilerSet ELSE FALSE

\* A category spoilered as soon as one of its entries is.
category_spoilered_any(spoilerSet, category) ==
    \E i \in 1..Len(category.entries) : entry_spoilered(spoilerSet, category.entries[i])

\* category_spoilered
category_spoilered(spoilerSet, category) ==
    \A i \in 1..Len(category.entries) : entry_spoilered(spoilerSet, category.entries[i])

\* write_entry: the h3 title
EntryTitle(entry) ==
    With(PairTag("h3", <<kw("clazz", S("entry-title page-header"))>>),
         Then(write_block(entry.name), Then(anchor_toc, permalink(S("#") \o entry.id))))

\* write_category: the title and description, spoiler-wrapped
CategoryHead(spoilerSet, category) ==
    With(pair_tag_if(category_spoilered(spoilerSet, category), "div",
                     <<kw("clazz", S("spoilered"))>>),
         Then(With(PairTag("h2", <<kw("clazz", S("category-title page-header"))>>),
                   Then(write_block(category.name),
                        Then(anchor_toc, permalink(S("#") \o category.id)))),
              write_block(category.description)))

\* Every entry rendered, the blacklist not consulted.
RenderedAlways(blacklisted, entry) == TRUE

\* write_category: "if entry["id"] not in book.blacklist"
Rendered(blacklisted, entry) == entry.id \notin blacklisted

\* write_toc: the li of one entry
TocEntry(spoilerSet, entry) ==
    With(PairTag("li", <<>>),
         With(PairTag("a", <<kw("href", S("#") \o entry.id),
                             kw("clazz", IF entry_spoilered(spoilerSet, entry)
                                         THEN S("spoilered") ELSE <<>>)>>),
              Ok(StreamText(entry.name.str))))

\* write_toc: "for entry in category["entries"]"
RECURSIVE TocEntries(_, _)
TocEntries(spoilerSet, entries) ==
    IF entries = <<>> THEN Ok(<<>>)
    ELSE Then(TocEntry(spoilerSet, Head(entries)), TocEntries(spoilerSet, Tail(entries)))

\* write_toc: the details block of one category
TocCategory(spoilerSet, category) ==
    With(PairTag("details", <<kw("clazz", S("toc-category"))>>),
         Then(With(PairTag("summary", <<>>),
                   With(PairTag("a", <<kw("href", S("#") \o category.id),
                                       kw("clazz", IF category_spoilered(spoilerSet, category)
                                                   THEN S("spoilered") ELSE <<>>)>>),
                        Ok(StreamText(category.name.str)))),
              With(PairTag("ul", <<>>), TocEntries(spoilerSet, category.entries))))

RECURSIVE TocCategories(_, _)
TocCategories(spoilerSet, categories) ==
    IF categories = <<>> THEN Ok(<<>>)
    ELSE Then(TocCategory(spoilerSet, Head(categories)),
              TocCategories(spoilerSet, Tail(categories)))

\* write_toc
write_toc(spoilerSet, categories) ==
    Then(With(PairTag("h2", <<kw("id", S("table-of-contents")), kw("clazz", S("page-header"))>>),
              Then(Ok(StreamText(S("Table of Contents"))),
              Then(With(PairTag("a", <<kw("href", S("javascript:void(0)")),
                                       kw("clazz", S("permalink toggle-link small")),
                                       <<(<<"data", "_", "target">>), S("toc-category")>>,
                                       kw("title", S("Toggle all"))>>),
                        empty_pair_tag("i", <<kw("clazz", S("bi bi-list-nested"))>>)),
                   permalink(S("#table-of-contents"))))),
         TocCategories(spoilerSet, categories))

\* write_book: the jumbotron header
BookHeader(b) ==
    With(PairTag("header", <<kw("clazz", S("jumbotron"))>>),
         Then(With(PairTag("h1", <<kw("clazz", S("book-title"))>>), write_block(b.name)),
              write_block(b.landing_text)))

---------------------------------------------------------------------------
(* Context managers that stay entered from one step of the rendering to a   *)
(* later one are kept on the stack.  A step is a sequence of operations:    *)
(* enter a context, leave the innermost one, or run code that writes.       *)

Push(tag) == [op |-> "push", tag |-> tag, r |-> Ok(<<>>)]
Pop == [op |-> "pop", tag |-> Empty, r |-> Ok(<<>>)]
Run(r) == [op |-> "run", tag |-> Empty, r |-> r]

\* An exception leaving the with blocks of stk: each __exit__ runs, innermost first.
RECURSIVE Unwind(_)
Unwind(stk) ==
    IF stk = <<>> THEN <<>>
    ELSE Exit(stk[Len(stk)]) \o Unwind(SubSeq(stk, 1, Len(stk) - 1))

\* [out, err, stk]: the tokens written, the exception raised, the stack left
RECURSIVE Exec(_, _)
Exec(ops, stk) ==
    IF ops = <<>> THEN [out |-> <<>>, err |-> NoErr, stk |-> stk]
    ELSE LET o == Head(ops)
         IN  CASE o.op = "push" ->
                    LET rest == Exec(Tail(ops), Append(stk, o.tag))
                    IN  [rest EXCEPT !.out = Enter(o.tag) \o @]
               [] o.op = "pop" ->
                    LET rest == Exec(Tail(ops), SubSeq(stk, 1, Len(stk) - 1))
                    IN  [rest EXCEPT !.out = Exit(stk[Len(stk)]) \o @]
               [] OTHER ->
                    IF o.r.err # NoErr
                    THEN [out |-> o.r.out \o Unwind(stk), err |-> o.r.err, stk |-> <<>>]
                    ELSE LET rest == Exec(Tail(ops), stk)
                         IN  [rest EXCEPT !.out = o.r.out \o @]

---------------------------------------------------------------------------
(* Template splicer: generate_docs *)

Range(s) == {s[i] : i \in 1..Len(s)}

\* "for line in template.splitlines(True)"
Lines == SplitLines(template)

\* The blacklist updated with every word of the line, the directive included.
BlacklistUpdateAllWords(line, bl) ==
    IF StartsWith(line, S("#DO_NOT_RENDER")) THEN bl \cup Range(SplitWS(line)) ELSE bl

\* 'if line.startswith("#DO_NOT_RENDER"): book.blacklist.update(line.split()[1:])'
BlacklistUpdate(line, bl) ==
    IF StartsWith(line, S("#DO_NOT_RENDER")) THEN bl \cup Range(Tail(SplitWS(line))) ELSE bl

\* 'if line.startswith("#SPOILER"): book.spoilers.update(line.split()[1:])'
SpoilersUpdate(line, sp) ==
    IF StartsWith(line, S("#SPOILER")) THEN sp \cup Range(Tail(SplitWS(line))) ELSE sp

\* The branch taken if the marker were tested as the directives are, by prefix.
BranchMarkerPrefix(line) ==
    IF StartsWith(line, S("#SPOILER")) THEN "spoiler"
    ELSE IF StartsWith(line, S("#DUMP_BODY_HERE")) THEN "dump"
    ELSE "print"

\* the branch of "if startswith(#SPOILER) / elif line == marker / else" taken
Branch(line) ==
    IF StartsWith(line, S("#SPOILER")) THEN "spoiler"
    ELSE IF line = <<"#DUMP_BODY_HERE", "\n">> THEN "dump"
    ELSE "print"

\* print(line, end="", file=output) and print("", file=output)
PrintRaw(txt) == [k |-> "raw", txt |-> txt]

Event(kind, c, e, p) == [kind |-> kind, c |-> c, e |-> e, p |-> p]

\* One step of the rendering: the operations run on the stack; an exception
\* unwinds every with block and leaves generate_docs, whose StringIO is closed.
Step(ops, nextpc) ==
    LET x == Exec(ops, stack)
    IN  /\ output' = output \o x.out
        /\ stack' = x.stk
        /\ IF x.err = NoErr
           THEN pc' = nextpc /\ ret' = ret
           ELSE pc' = "raised" /\ ret' = [kind |-> "error", err |-> x.err]

\* a loop iteration on a line that is not the body marker
ScanLine ==
    /\ pc = "scan"
    /\ li <= Len(Lines)
    /\ Branch(Lines[li]) # "dump"
    /\ blacklist' = BlacklistUpdate(Lines[li], blacklist)
    /\ spoilers' = SpoilersUpdate(Lines[li], spoilers)
    /\ output' = IF Branch(Lines[li]) = "print" THEN Append(output, PrintRaw(Lines[li]))
                 ELSE output
    /\ li' = li + 1
    /\ UNCHANGED <<book, template, pc, ci, ei, pi, stack, ret, visited, bodyStart, init0,
                   blkVars, linkVars, pageVars,
                   loadVars>>

\* the body marker: write_book starts with the container and the header
DumpBody ==
    /\ pc = "scan"
    /\ li <= Len(Lines)
    /\ Branch(Lines[li]) = "dump"
    /\ blacklist' = BlacklistUpdate(Lines[li], blacklist)
    /\ spoilers' = spoilers
    /\ visited' = <<Event("book", 0, 0, 0)>>
    /\ bodyStart' = Len(output)
    /\ Step(<<Push(PairTag("div", <<kw("clazz", S("container"))>>)),
              Run(BookHeader(book)),
              Push(PairTag("nav", <<>>))>>, "toc")
    /\ UNCHANGED <<book, template, li, ci, ei, pi, init0, blkVars, linkVars, pageVars,
                   loadVars>>

\* write_book: the table of contents inside nav, then main is entered
WriteToc ==
    /\ pc = "toc"
    /\ Step(<<Run(write_toc(spoilers, book.categories)),
              Pop,
              Push(PairTag("main", <<kw("clazz", S("book-body"))>>))>>, "category")
    /\ ci' = 1
    /\ UNCHANGED <<book, blacklist, spoilers, template, li, ei, pi, visited, bodyStart, init0,
                   blkVars, linkVars, pageVars,
                   loadVars>>

\* write_category up to its loop over the entries
WriteCategory ==
    /\ pc = "category"
    /\ ci <= Len(book.categories)
    /\ LET category == book.categories[ci]
       IN  Step(<<Push(PairTag("section", <<kw("id", category.id)>>)),
                  Run(CategoryHead(spoilers, category))>>, "entry")
    /\ ei' = 1
    /\ visited' = Append(visited, Event("category", ci, 0, 0))
    /\ UNCHANGED <<book, blacklist, spoilers, template, li, ci, pi, bodyStart, init0,
                   blkVars, linkVars, pageVars,
                   loadVars>>

\* A skipped entry taken off the blacklist by the rendering.
SkipEntryDiscarding ==
    /\ pc = "entry"
    /\ ei <= Len(book.categories[ci].entries)
    /\ book.categories[ci].entries[ei].id \in blacklist
    /\ ei' = ei + 1
    /\ blacklist' = blacklist \ {book.categories[ci].entries[ei].id}
    /\ UNCHANGED <<book, spoilers, template, li, output, pc, ci, pi, stack, ret,
                   visited, bodyStart, init0, blkVars, linkVars, pageVars,
                   loadVars>>

\* write_category: an entry whose id is in the blacklist
SkipEntry ==
    /\ pc = "entry"
    /\ ei <= Len(book.categories[ci].entries)
    /\ ~Rendered(blacklist, book.categories[ci].entries[ei])
    /\ ei' = ei + 1
    /\ UNCHANGED <<book, blacklist, spoilers, template, li, output, pc, ci, pi, stack, ret,
                   visited, bodyStart, init0, blkVars, linkVars, pageVars,
                   loadVars>>

\* write_entry up to its loop over the pages
WriteEntry ==
    /\ pc = "entry"
    /\ ei <= Len(book.categories[ci].entries)
    /\ Rendered(blacklist, book.categories[ci].entries[ei])
    /\ LET entry == book.categories[ci].entries[ei]
       IN  Step(<<Push(PairTag("div", <<kw("id", entry.id)>>)),
                  Push(pair_tag_if(entry_spoilered(spoilers, entry), "div",
                                   <<kw("clazz", S("spoilered"))>>)),
                  Run(EntryTitle(entry))>>, "page")
    /\ pi' = 1
    /\ visited' = Append(visited, Event("entry", ci, ei, 0))
    /\ UNCHANGED <<book, blacklist, spoilers, template, li, ci, ei, bodyStart, init0,
                   blkVars, linkVars, pageVars,
                   loadVars>>

\* write_entry: one call of write_page
WritePage ==
    /\ pc = "page"
    /\ pi <= Len(book.categories[ci].entries[ei].pages)
    /\ LET entry == book.categories[ci].entries[ei]
       IN  Step(<<Run(write_page(entry.id, entry.pages[pi]))>>, "page")
    /\ pi' = pi + 1
    /\ visited' = Append(visited, Event("page", ci, ei, pi))
    /\ UNCHANGED <<book, blacklist, spoilers, template, li, ci, ei, bodyStart, init0,
                   blkVars, linkVars, pageVars,
                   loadVars>>

\* write_entry returns: its two with blocks are left
EndEntry ==
    /\ pc = "page"
    /\ pi > Len(book.categories[ci].entries[ei].pages)
    /\ Step(<<Pop, Pop>>, "entry")
    /\ ei' = ei + 1
    /\ UNCHANGED <<book, blacklist, spoilers, template, li, ci, pi, visited, bodyStart, init0,
                   blkVars, linkVars, pageVars,
                   loadVars>>

\* write_category returns: the section is left
EndCategory ==
    /\ pc = "entry"
    /\ ei > Len(book.categories[ci].entries)
    /\ Step(<<Pop>>, "category")
    /\ ci' = ci + 1
    /\ UNCHANGED <<book, blacklist, spoilers, template, li, ei, pi, visited, bodyStart, init0,
                   blkVars, linkVars, pageVars,
                   loadVars>>

\* write_book returns, and print("", file=output) ends the marker's iteration
EndBody ==
    /\ pc = "category"
    /\ ci > Len(book.categories)
    /\ LET x == Exec(<<Pop, Pop>>, stack)
       IN  /\ output' = Append(output \o x.out, PrintRaw(S("\n")))
           /\ stack' = x.stk
    /\ pc' = "scan"
    /\ li' = li + 1
    /\ UNCHANGED <<book, blacklist, spoilers, template, ci, ei, pi, ret, visited, bodyStart,
                   init0, blkVars, linkVars, pageVars,
                   loadVars>>

\* "return output.getvalue()"
Return ==
    /\ pc = "scan"
    /\ li > Len(Lines)
    /\ ret' = [kind |-> "value", value |-> output]
    /\ pc' = "done"
    /\ UNCHANGED <<book, blacklist, spoilers, template, li, output, ci, ei, pi, stack,
                   visited, bodyStart, init0, blkVars, linkVars, pageVars,
                   loadVars>>

---------------------------------------------------------------------------
(* The books and templates generate_docs is run on *)

MaxEntries == 2
MaxPieces == 3

TGood == Leaf(S("text"))
TStyled == Node(S("italic"), <<>>, <<Leaf(<<"sty", "\n", "led">>)>>)
TBad == Node(S("bold"), <<>>,
             <<Leaf(S("before")), Node(S("wiggle"), <<>>, <<Leaf(S("inside"))>>),
               Leaf(S("after"))>>)

PText == [type |-> S("patchouli:text"), text |-> TStyled]
PUnknown == [type |-> S("totally:unknown"), anchor |-> S("anc"), title |-> S("Title"),
             text |-> TGood]
PUnknownBare == [type |-> S("totally:unknown")]
PBadStyle == [type |-> S("patchouli:text"), text |-> TBad]
PImage == [type |-> S("patchouli:image"),
           images |-> << <<"hexcasting", ":", "textures/a.png">> >>, text |-> TGood]
PBadImage == [type |-> S("patchouli:image"),
              images |-> << <<"hexcasting", ":", "textures/a.png">>,
                            <<"othermod", ":", "textures/b.png">> >>]
PPattern == [type |-> S("hexcasting:pattern"), name |-> S("Reflection"),
             anchor |-> S("hexcasting:get_caster"), output |-> S("entity"),
             op |-> <<[angle_sig |-> S("qaq"), direction |-> S("NORTH_EAST"),
                       is_per_world |-> FALSE]>>,
             text |-> TGood]

E1 == [id |-> S("e1"), name |-> Leaf(S("One")), advancement |-> S("adv1"),
       pages |-> <<PText, PUnknown, PImage>>]
E2 == [id |-> S("e2"), name |-> Leaf(S("Two")), pages |-> <<PUnknownBare, PPattern>>]
E3 == [id |-> S("e3"), name |-> Leaf(S("Three")), advancement |-> S("adv2"),
       pages |-> <<PBadStyle, PText>>]
E4 == [id |-> S("e4"), name |-> Leaf(S("Four")), advancement |-> S("adv1"),
       pages |-> <<PBadImage, PText>>]
E5 == [id |-> S("e5"), name |-> Leaf(S("Five")), advancement |-> S("adv2"),
       pages |-> <<[type |-> S("patchouli:empty")]>>]

E6 == [id |-> S("e6"), name |-> Leaf(S("Six")),
       pages |-> <<[type |-> S("totally:unknown"), text |-> TBad], PText>>]

E7 == [id |-> S("e7"), name |-> Leaf(S("Seven")), pages |-> <<PText, PUnknownBare>>]

EntryPool == {E1, E2, E3}

\* the sequences of at most n entries of the pool, no entry twice
RECURSIVE EntrySeqs(_)
EntrySeqs(n) ==
    IF n = 0 THEN {<<>>}
    ELSE LET sub == EntrySeqs(n - 1)
             longest == {es \in sub : Len(es) = n - 1}
         IN  sub \cup {Append(x[1], x[2]) :
                         x \in {y \in longest \X EntryPool : y[2] \notin Range(y[1])}}

Cat(id, description, entries) ==
    [id |-> S(id), name |-> Leaf(<<"Category ", id>>), description |-> description,
     entries |-> entries]

Book(name, landing_text, categories, blacklisted, spoilerSet) ==
    [name |-> name, landing_text |-> landing_text, categories |-> categories,
     blacklist |-> blacklisted, spoilers |-> spoilerSet]

Books ==
    { Book(TStyled, TGood, <<Cat("c1", TStyled, es)>>, {}, {}) : es \in EntrySeqs(MaxEntries) }
    \cup
    { Book(TGood, TStyled, <<Cat("c1", TGood, <<E2, E1>>), Cat("c2", TGood, <<E5>>)>>,
           {S("e1")}, {S("adv2")}),
      Book(TGood, TBad, <<Cat("c1", TGood, <<E1>>)>>, {}, {}),
      Book(TGood, TGood, <<Cat("c1", TGood, <<E2>>), Cat("c2", TBad, <<E1>>)>>, {}, {}),
      Book(TGood, TGood, <<Cat("c1", TGood, <<E4, E1>>)>>, {}, {}),
      Book(TGood, TGood, <<Cat("c1", TGood, <<E2, E6>>)>>, {}, {}),
      Book(TGood, TGood, <<Cat("c1", TGood, <<E7, E1>>), Cat("c2", TGood, <<>>)>>, {}, {}),
      Book(TGood, TGood, <<Cat("c1", TGood, <<E1, E4>>), Cat("c2", TGood, <<E2>>)>>,
           {S("e4")}, {S("adv1")}) }

Pieces ==
    { <<"#DO_NOT_RENDER", " ", "e2", " ", "e3", "\n">>,
      <<"#SPOILER", " ", "adv1", "\n">>,
      <<"#DUMP_BODY_HERE", "\n">>,
      <<"<p>", "\n">>,
      <<"#DUMP_BODY_HERE">> }

\* the templates made of at most n pieces
RECURSIVE Templates(_)
Templates(n) ==
    IF n = 0 THEN {<<>>}
    ELSE {<<>>} \cup {p \o t : p \in Pieces, t \in Templates(n - 1)}

DocInit ==
    /\ \E b \in Books :
         /\ book = [name |-> b.name, landing_text |-> b.landing_text,
                    categories |-> b.categories]
         /\ blacklist = b.blacklist
         /\ spoilers = b.spoilers
         /\ init0 = [blacklist |-> b.blacklist, spoilers |-> b.spoilers]
    /\ template \in Templates(MaxPieces)
    /\ li = 1
    /\ output = <<>>
    /\ pc = "scan"
    /\ ci = 1 /\ ei = 1 /\ pi = 1
    /\ stack = <<>>
    /\ ret = [kind |-> "none"]
    /\ visited = <<>>
    /\ bodyStart = 0

---------------------------------------------------------------------------
(* write_block harness: one call of write_block on a block of bounded depth *)

MaxDepth == 3

GoodLeaf == Leaf(<<"a<b", "\n", "c">>)
BoldNode == Node(S("bold"), <<>>, <<Leaf(S("x"))>>)
BlockStyles ==
    { [type |-> S("bold"), value |-> <<>>],
      [type |-> S("link"), value |-> <<"foo", "#", "bar">>],
      [type |-> S("base"), value |-> <<>>],
      [type |-> S("wiggle"), value |-> <<>>] }

RECURSIVE Blocks(_)
Blocks(d) ==
    IF d = 0 THEN {GoodLeaf}
    ELSE LET sub == Blocks(d - 1)
         IN  sub \cup
             { [style |-> s, children |-> c] :
                 s \in BlockStyles,
                 c \in {<<>>} \cup {<<t>> : t \in sub} \cup {<<GoodLeaf, t>> : t \in sub}
                       \cup {<<t, BoldNode>> : t \in sub} }

BlkIdle == [done |-> FALSE, out |-> <<>>, err |-> NoErr]

BlkInit ==
    /\ blk \in Blocks(MaxDepth)
    /\ blkRes = BlkIdle

RunWriteBlock ==
    /\ ~blkRes.done
    /\ LET r == write_block(blk)
       IN  blkRes' = [done |-> TRUE, out |-> r.out, err |-> r.err]
    /\ UNCHANGED <<blk, linkVars, pageVars, loadVars, docVars>>

---------------------------------------------------------------------------
(* get_format harness: one call of get_format("link", value) *)

MaxStrLen == 3

LinkAlphabet == {"#", ":", "/", "&"}

RECURSIVE StrsUpTo(_, _)
StrsUpTo(alphabet, n) ==
    IF n = 0 THEN {<<>>}
    ELSE LET sub == StrsUpTo(alphabet, n - 1)
         IN  sub \cup {Append(s, a) : s \in {t \in sub : Len(t) = n - 1}, a \in alphabet}

LinkValues ==
    StrsUpTo(LinkAlphabet, MaxStrLen)
      \cup { <<"f", "o", "o", "#", "b", "a", "r">>,
             <<"h", "t", "t", "p", "s", ":", "/", "/", "e", "x", "a", "m", "p", "l", "e", ".", "c", "o", "m">>,
             <<"h", "t", "t", "p", ":", "/", "/", "x", "#", "y">> }

LinkIdle == [done |-> FALSE, tag |-> Empty, err |-> NoErr]

LinkInit ==
    /\ linkVal \in LinkValues
    /\ linkRes = LinkIdle

RunGetFormat ==
    /\ ~linkRes.done
    /\ LET f == get_format(S("link"), linkVal)
       IN  linkRes' = [done |-> TRUE, tag |-> f.tag, err |-> f.err]
    /\ UNCHANGED <<linkVal, blkVars, pageVars, loadVars, docVars>>

---------------------------------------------------------------------------
(* write_page harness: one call of write_page on a page of every kind *)

\* The keys each kind of page reads without testing for them ("text" apart).
PageKinds ==
    { [type |-> S("patchouli:text")],
      [type |-> S("patchouli:empty")],
      [type |-> S("patchouli:link"), url |-> S("https://example.com/?a&b"),
       link_text |-> S("more")],
      [type |-> S("patchouli:spotlight"), item_name |-> S("Staff")],
      [type |-> S("patchouli:crafting"), item_name |-> <<S("Staff"), S("Lens")>>],
      [type |-> S("patchouli:image"), images |-> << <<"hexcasting", ":", "textures/a.png">> >>],
      [type |-> S("patchouli:image"), images |-> << <<"othermod", ":", "textures/b.png">> >>],
      [type |-> S("hexcasting:crafting_multi"), item_name |-> <<S("Staff"), S("Lens")>>],
      [type |-> S("hexcasting:brainsweep"), output_name |-> S("Budding Amethyst")],
      [type |-> S("hexcasting:pattern"), name |-> S("Reflection"), output |-> S("entity"),
       op |-> <<[angle_sig |-> S("qaq"), direction |-> S("NORTH_EAST"),
                 is_per_world |-> FALSE]>>],
      [type |-> S("hexcasting:manual_pattern_nosig"), op |-> <<>>],
      [type |-> S("hexcasting:manual_pattern"), name |-> S("Numbers"), input |-> S("num"),
       op |-> <<>>],
      [type |-> S("totally:unknown")] }

\* the kinds that read page["text"] without testing for it
TextRequired ==
    {S("patchouli:text"), S("patchouli:link")} \cup PatternTypes

\* the keys of a page that every kind may or may not have
PageAnchors == {<<>>, [anchor |-> <<>>], [anchor |-> S("anc")], [anchor |-> <<"a", "&", "b">>]}
PageHeadings ==
    {<<>>, [title |-> S("Title")], [header |-> S("Header")],
     [title |-> S("Title"), header |-> S("Header")]}
PageTexts == {<<>>, [text |-> TGood], [text |-> Leaf(<<"line", "\n">>)], [text |-> TBad]}

Pages ==
    { p \in { k @@ a @@ h @@ t :
                k \in PageKinds, a \in PageAnchors, h \in PageHeadings, t \in PageTexts } :
        p.type \in TextRequired => Has(p, "text") }

PageIds == {S("e1"), <<"cat", "/", "e2">>}

PageNotRun == [done |-> FALSE, out |-> <<>>, err |-> NoErr]

PageIdle == pageArg = [pageid |-> <<>>, page |-> [type |-> S("patchouli:empty")]]
            /\ pageRes = PageNotRun

PageInit ==
    /\ pageArg \in [pageid : PageIds, page : Pages]
    /\ pageRes = PageNotRun

RunWritePage ==
    /\ ~pageRes.done
    /\ LET r == write_page(pageArg.pageid, pageArg.page)
       IN  pageRes' = [done |-> TRUE, out |-> r.out, err |-> r.err]
    /\ UNCHANGED <<pageArg, blkVars, linkVars, loadVars, docVars>>

---------------------------------------------------------------------------
(* load_books: the languages loaded and the book exported *)

MaxLangs == 3

None == "None"
Langs == {"en_us", "zh_cn", "ru_ru", "ja_jp"}

\* the sequences of at most n distinct languages
RECURSIVE LangSeqs(_)
LangSeqs(n) ==
    IF n = 0 THEN {<<>>}
    ELSE LET sub == LangSeqs(n - 1)
         IN  sub \cup UNION {{Append(q, l) : l \in Langs \ Range(q)} :
                                  q \in {t \in sub : Len(t) = n - 1}}

\* _load_i18n without "ensure the default lang is loaded first".
load_i18n_as_found(requested, found, default) ==
    IF requested # None THEN [keys |-> <<requested>>, err |-> NoErr]
    ELSE IF default \notin Range(found) THEN [keys |-> <<>>, err |-> Raise("KeyError", default)]
    ELSE [keys |-> found, err |-> NoErr]

\* _load_i18n: the keys of the dict it returns, in order.  A dict keeps its
\* keys in insertion order, pop raises KeyError for a missing key, and
\* {default_lang: ...} | per_lang_i18n has the keys of the left operand first.
load_i18n(requested, found, default) ==
    IF requested # None THEN [keys |-> <<requested>>, err |-> NoErr]
    ELSE IF default \notin Range(found) THEN [keys |-> <<>>, err |-> Raise("KeyError", default)]
    ELSE [keys |-> <<default>> \o SelectSeq(found, LAMBDA l : l # default), err |-> NoErr]

\* books[lang] = ...: a new key goes last, a key already there keeps its place
DictSet(keys, key) == IF key \in Range(keys) THEN keys ELSE Append(keys, key)

LoadIdle ==
    /\ lang = None
    /\ default_lang = "en_us"
    /\ per_lang = <<>>
    /\ i18ns = <<>>
    /\ books = <<>>
    /\ export_dir = None
    /\ lpc = "idle"
    /\ loaded = <<>>

\* load_books is entered; clean_and_load_all has made the loader, whose
\* export_dir is a directory or None
LoadInit ==
    /\ lang \in Langs \cup {None}
    /\ default_lang \in Langs
    /\ per_lang \in LangSeqs(MaxLangs)
    /\ i18ns = <<>>
    /\ books = <<>>
    /\ export_dir \in {"dir", None}
    /\ lpc = "i18n"
    /\ loaded = <<>>

\* "_load_i18n(loader, lang, allow_missing).items()"
LoadI18n ==
    /\ lpc = "i18n"
    /\ LET r == load_i18n(lang, per_lang, default_lang)
       IN  /\ i18ns' = r.keys
           /\ lpc' = IF r.err = NoErr THEN "loop" ELSE "raised"
    /\ UNCHANGED <<lang, default_lang, per_lang, books, export_dir, loaded,
                   docVars, blkVars, linkVars, pageVars>>

\* one iteration of the for loop: _load_book, books[lang] = ..., and
\* loader.export_dir = None
LoadBook ==
    /\ lpc = "loop"
    /\ Len(loaded) < Len(i18ns)
    /\ LET l == i18ns[Len(loaded) + 1]
       IN  /\ loaded' = Append(loaded, [lang |-> l, export_dir |-> export_dir])
           /\ books' = DictSet(books, l)
    /\ export_dir' = None
    /\ UNCHANGED <<lang, default_lang, per_lang, i18ns, lpc,
                   docVars, blkVars, linkVars, pageVars>>

\* _load_book raises (a book that does not validate): load_books is left
LoadBookRaises ==
    /\ lpc = "loop"
    /\ Len(loaded) < Len(i18ns)
    /\ loaded' = Append(loaded, [lang |-> i18ns[Len(loaded) + 1], export_dir |-> export_dir])
    /\ lpc' = "raised"
    /\ UNCHANGED <<lang, default_lang, per_lang, i18ns, books, export_dir,
                   docVars, blkVars, linkVars, pageVars>>

\* "return books, all_metadata"
ReturnBooks ==
    /\ lpc = "loop"
    /\ Len(loaded) = Len(i18ns)
    /\ lpc' = "done"
    /\ UNCHANGED <<lang, default_lang, per_lang, i18ns, books, export_dir, loaded,
                   docVars, blkVars, linkVars, pageVars>>

---------------------------------------------------------------------------
(* specifications *)

\* The document variables when generate_docs is not the function under study.
DocIdle ==
    /\ book = [name |-> Leaf(<<>>), landing_text |-> Leaf(<<>>), categories |-> <<>>]
    /\ blacklist = {}
    /\ spoilers = {}
    /\ template = <<>>
    /\ li = 1
    /\ output = <<>>
    /\ pc = "idle"
    /\ ci = 1 /\ ei = 1 /\ pi = 1
    /\ stack = <<>>
    /\ ret = [kind |-> "none"]
    /\ visited = <<>>
    /\ bodyStart = 0
    /\ init0 = [blacklist |-> {}, spoilers |-> {}]

Init ==
    /\ DocInit
    /\ blk = GoodLeaf /\ blkRes = BlkIdle
    /\ linkVal = <<>> /\ linkRes = LinkIdle
    /\ PageIdle
    /\ LoadIdle

Next ==
    \/ ScanLine
    \/ DumpBody
    \/ WriteToc
    \/ WriteCategory
    \/ SkipEntry
    \/ WriteEntry
    \/ WritePage
    \/ EndEntry
    \/ EndCategory
    \/ EndBody
    \/ Return

Spec == Init /\ [][Next]_vars

BlockInit == DocIdle /\ BlkInit /\ linkVal = <<>> /\ linkRes = LinkIdle /\ PageIdle
             /\ LoadIdle
BlockNext == RunWriteBlock
SpecBlock == BlockInit /\ [][BlockNext]_vars

LinkSpecInit == DocIdle /\ LinkInit /\ blk = GoodLeaf /\ blkRes = BlkIdle /\ PageIdle
                /\ LoadIdle
LinkNext == RunGetFormat
SpecLink == LinkSpecInit /\ [][LinkNext]_vars

PageSpecInit ==
    /\ DocIdle
    /\ PageInit
    /\ blk = GoodLeaf /\ blkRes = BlkIdle
    /\ linkVal = <<>> /\ linkRes = LinkIdle
    /\ LoadIdle
PageNext == RunWritePage
SpecPage == PageSpecInit /\ [][PageNext]_vars

LoadSpecInit ==
    /\ DocIdle
    /\ LoadInit
    /\ blk = GoodLeaf /\ blkRes = BlkIdle
    /\ linkVal = <<>> /\ linkRes = LinkIdle
    /\ PageIdle
LoadNext ==
    \/ LoadI18n
    \/ LoadBook
    \/ LoadBookRaises
    \/ ReturnBooks
SpecLoad == LoadSpecInit /\ [][LoadNext]_vars

---------------------------------------------------------------------------
(* Properties *)

IsOpen(tok) == tok.k = "open"
IsClose(tok) == tok.k = "close"

\* the value of attribute key of an opening or self-closing tag has value val
HasAttr(tok, key, val) ==
    /\ tok.k \in {"open", "tag"}
    /\ \E i \in 1..Len(tok.attrs) : tok.attrs[i] = <<S(key), val>>

\* Reading the tokens in order with a stack of the tags opened and not closed:
\* ok is FALSE as soon as a closing tag is not the tag on top of the stack.
RECURSIVE Nesting(_, _)
Nesting(toks, open) ==
    IF toks = <<>> THEN [ok |-> TRUE, open |-> open]
    ELSE LET t == Head(toks)
         IN  IF IsOpen(t) THEN Nesting(Tail(toks), Append(open, t.name))
             ELSE IF IsClose(t)
                  THEN IF open # <<>> /\ open[Len(open)] = t.name
                       THEN Nesting(Tail(toks), SubSeq(open, 1, Len(open) - 1))
                       ELSE [ok |-> FALSE, open |-> open]
                  ELSE Nesting(Tail(toks), open)

Count(toks, kind) == Cardinality({i \in 1..Len(toks) : toks[i].k = kind})

\* C7: whatever write_block wrote when it exits, normally or by an exception
\* raised in a nested node, every closing tag closes the tag opened last and
\* not yet closed, and as many tags were closed as were opened.
C7_BalancedNesting ==
    blkRes.done =>
        /\ Nesting(blkRes.out, <<>>).ok
        /\ Nesting(blkRes.out, <<>>).open = <<>>
        /\ Count(blkRes.out, "open") = Count(blkRes.out, "close")

\* write_block left by the ValueError of a node nested under two opened tags
C7_Witness ==
    /\ blkRes.done
    /\ blkRes.err.exc = "ValueError"
    /\ \E i \in 1..Len(blkRes.out) :
         /\ Len(Nesting(SubSeq(blkRes.out, 1, i), <<>>).open) >= 2
         /\ \A j \in (i + 1)..Len(blkRes.out) : IsClose(blkRes.out[j])

\* html.unescape of an attribute value
UnescapeAtom(a) ==
    CASE a = "&amp;" -> "&"
      [] a = "&lt;" -> "<"
      [] a = "&gt;" -> ">"
      [] a = "&quot;" -> "\""
      [] a = "&#x27;" -> "'"
      [] OTHER -> a

Unescape(s) == [i \in 1..Len(s) |-> UnescapeAtom(s[i])]

\* the href the tag get_format returned carries
Href(tag) ==
    LET i == CHOOSE i \in 1..Len(tag.kwargs) : tag.kwargs[i][1] = S("href")
    IN  Unescape(tag.kwargs[i][2])

HasScheme(value) ==
    \E i \in 1..(Len(value) - 2) : value[i] = ":" /\ value[i + 1] = "/" /\ value[i + 2] = "/"

\* C10: the href of the link style is the value itself when the value contains
\* "://", and otherwise "#" followed by the value with each "#" turned into "@";
\* "foo#bar" gives "#foo@bar".
C10_LinkHref ==
    linkRes.done =>
        LET h == Href(linkRes.tag)
        IN  /\ linkRes.err = NoErr
            /\ linkRes.tag.name = "a"
            /\ HasScheme(linkVal) => h = linkVal
            /\ ~HasScheme(linkVal) =>
                 /\ Len(h) = Len(linkVal) + 1
                 /\ h[1] = "#"
                 /\ \A i \in 1..Len(linkVal) :
                      h[i + 1] = IF linkVal[i] = "#" THEN "@" ELSE linkVal[i]
            /\ linkVal = <<"f", "o", "o", "#", "b", "a", "r">>
                 => h = <<"#", "f", "o", "o", "@", "b", "a", "r">>

\* get_format has run on "foo#bar"
C10_Witness ==
    /\ linkRes.done
    /\ linkVal = <<"f", "o", "o", "#", "b", "a", "r">>
    /\ Href(linkRes.tag) = <<"#", "f", "o", "o", "@", "b", "a", "r">>


---------------------------------------------------------------------------
(* Properties of generate_docs *)

DirectivePrefixes == {S("#DO_NOT_RENDER"), S("#SPOILER")}
IsDirective(line) == \E p \in DirectivePrefixes : StartsWith(line, p)
IsMarker(line) == line = <<"#DUMP_BODY_HERE", "\n">>

RenderPcs == {"toc", "category", "entry", "page"}

\* the marker line before li has just been replaced by the body
JustRendered == pc = "scan" /\ li > 1 /\ IsMarker(Lines[li - 1])

\* the tokens of the body being rendered, or just rendered
Body == SubSeq(output, bodyStart + 1, Len(output))

\* The template lines echoed to the output: the raw tokens, but for the line
\* terminator printed after a body, which follows a closing tag.
EchoedFrom(toks, i) ==
    LET at == SelectSeq([j \in 1..Len(toks) |-> j],
                        LAMBDA j : /\ j >= i
                                   /\ toks[j].k = "raw"
                                   /\ (j = 1 \/ toks[j - 1].k = "raw"))
    IN  [n \in 1..Len(at) |-> toks[at[n]].txt]

PassesThrough(line) == ~IsDirective(line) /\ ~IsMarker(line)

\* C1: the output of generate_docs holds, in order and unchanged, exactly the
\* template lines that are neither a directive line nor the body marker.
C1_DirectivesStripped ==
    pc = "done" => EchoedFrom(ret.value, 1) = SelectSeq(Lines, PassesThrough)

AllEntries == UNION {Range(book.categories[c].entries) : c \in 1..Len(book.categories)}

\* the ids a #DO_NOT_RENDER line before the first marker names
NamedBeforeMarker ==
    {id \in {e.id : e \in AllEntries} :
        /\ \E j \in 1..Len(Lines) : IsMarker(Lines[j])
        /\ \E i \in 1..Len(Lines) :
             /\ StartsWith(Lines[i], S("#DO_NOT_RENDER"))
             /\ id \in Range(Tail(SplitWS(Lines[i])))
             /\ \A j \in 1..Len(Lines) : IsMarker(Lines[j]) => i < j}

\* tok is the block of the entry id, or a link to it
RefersTo(tok, id) == HasAttr(tok, "id", id) \/ HasAttr(tok, "href", S("#") \o id)

\* C2: an entry named by a #DO_NOT_RENDER line before the marker is absent from
\* the output: no tag is its block and no tag links to its id.
C2_BlacklistedOmitted ==
    pc = "done" =>
        \A id \in NamedBeforeMarker :
            \A i \in 1..Len(ret.value) : ~RefersTo(ret.value[i], id)


\* The declared traversal of the book with the blacklisted entries left out:
\* the book, then each category followed by its entries, each entry followed
\* by its pages.
RECURSIVE PagesFrom(_, _, _)
PagesFrom(c, e, p) ==
    IF p > Len(book.categories[c].entries[e].pages) THEN <<>>
    ELSE <<Event("page", c, e, p)>> \o PagesFrom(c, e, p + 1)

RECURSIVE EntriesFrom(_, _, _)
EntriesFrom(banned, c, e) ==
    IF e > Len(book.categories[c].entries) THEN <<>>
    ELSE (IF book.categories[c].entries[e].id \in banned THEN <<>>
          ELSE <<Event("entry", c, e, 0)>> \o PagesFrom(c, e, 1))
         \o EntriesFrom(banned, c, e + 1)

RECURSIVE CategoriesFrom(_, _)
CategoriesFrom(banned, c) ==
    IF c > Len(book.categories) THEN <<>>
    ELSE <<Event("category", c, 0, 0)>> \o EntriesFrom(banned, c, 1)
         \o CategoriesFrom(banned, c + 1)

Declared(banned) == <<Event("book", 0, 0, 0)>> \o CategoriesFrom(banned, 1)

IsPrefix(s, t) == Len(s) <= Len(t) /\ SubSeq(t, 1, Len(s)) = s

\* the ids of the entry blocks among the tokens, in order
EntryBlocks(toks) ==
    LET blocks == SelectSeq(toks, LAMBDA t : /\ IsOpen(t) /\ t.name = "div"
                                             /\ \E e \in AllEntries : HasAttr(t, "id", e.id))
    IN  [n \in 1..Len(blocks) |-> blocks[n].attrs[1][2]]

\* the entry ids of a sequence of events, in order
RECURSIVE EntryIds(_)
EntryIds(events) ==
    IF events = <<>> THEN <<>>
    ELSE LET v == Head(events)
         IN  (IF v.kind = "entry" THEN <<book.categories[v.c].entries[v.e].id>> ELSE <<>>)
             \o EntryIds(Tail(events))

\* C3: what is rendered is the declared traversal without the blacklisted
\* entries: at every point of the rendering a prefix of it, and all of it when
\* write_book has returned; the entry blocks written are those entries' blocks,
\* each once and in the declared order.
C3_DeclaredOrder ==
    /\ pc \in RenderPcs \cup {"raised"} =>
         /\ IsPrefix(visited, Declared(blacklist))
         /\ EntryBlocks(Body) = EntryIds(visited)
    /\ JustRendered =>
         /\ visited = Declared(blacklist)
         /\ EntryBlocks(Body) = EntryIds(Declared(blacklist))

\* a body is complete in which a blacklisted entry was passed over and a later
\* entry of the same category rendered with its pages
C3_Witness ==
    /\ JustRendered
    /\ \E k \in 1..Len(visited) :
         /\ visited[k].kind = "entry"
         /\ visited[k].e > 1
         /\ book.categories[visited[k].c].entries[visited[k].e - 1].id \in blacklist
         /\ k + 2 <= Len(visited)
         /\ visited[k + 2].kind = "page"

\* An entry is spoilered exactly when it has an advancement key that is in the
\* spoiler set.
Spoilered(entry) == Has(entry, "advancement") /\ entry.advancement \in spoilers
AllSpoilered(category) == \A e \in Range(category.entries) : Spoilered(e)

SpoilerDiv == [k |-> "open", name |-> "div", attrs |-> <<<<S("class"), S("spoilered")>>>>]

\* the tokens of the table of contents link to id carry the class cls
TocLinkClass(id, cls) ==
    \E i \in 1..Len(Body) :
        /\ IsOpen(Body[i]) /\ Body[i].name = "a"
        /\ Body[i].attrs = <<<<S("href"), S("#") \o id>>, <<S("class"), cls>>>>

\* the block opened by the tag [name id=...] is wrapped in the spoiler div
Wrapped(name, id) ==
    \E i \in 1..(Len(Body) - 1) :
        /\ IsOpen(Body[i]) /\ Body[i].name = name /\ HasAttr(Body[i], "id", id)
        /\ Body[i + 1] = SpoilerDiv

Opened(name, id) ==
    \E i \in 1..Len(Body) : IsOpen(Body[i]) /\ Body[i].name = name /\ HasAttr(Body[i], "id", id)

\* C4: in the table of contents and in its section a category is marked
\* spoilered exactly when each of its entries is spoilered, and an entry exactly
\* when it has an advancement key that is in the spoiler set.
C4_SpoilerPropagation ==
    (pc \in {"category", "entry", "page"} \/ JustRendered) =>
        /\ \A c \in 1..Len(book.categories) :
             LET category == book.categories[c]
             IN  /\ TocLinkClass(category.id, S("spoilered")) <=> AllSpoilered(category)
                 /\ TocLinkClass(category.id, <<>>) <=> ~AllSpoilered(category)
                 /\ Opened("section", category.id) =>
                      (Wrapped("section", category.id) <=> AllSpoilered(category))
        /\ \A e \in AllEntries :
             /\ TocLinkClass(e.id, S("spoilered")) <=> Spoilered(e)
             /\ TocLinkClass(e.id, <<>>) <=> ~Spoilered(e)
             /\ Opened("div", e.id) => (Wrapped("div", e.id) <=> Spoilered(e))

\* a body is complete in which a category that has entries was written
\* spoiler-wrapped, after a #SPOILER line added a key to the spoiler set
C4_Witness ==
    /\ JustRendered
    /\ \E c \in 1..Len(book.categories) :
         /\ book.categories[c].entries # <<>>
         /\ AllSpoilered(book.categories[c])
         /\ Wrapped("section", book.categories[c].id)
    /\ init0.spoilers # spoilers


\* The words of a line after its first: the maximal runs of non-whitespace
\* that start after a whitespace character.
WordsAfterFirst(line) ==
    { SubSeq(line, x[1], x[2]) :
        x \in { y \in (2..Len(line)) \X (2..Len(line)) :
                  /\ y[1] <= y[2]
                  /\ \A k \in y[1]..y[2] : line[k] \notin Whitespace
                  /\ line[y[1] - 1] \in Whitespace
                  /\ (y[2] = Len(line) \/ line[y[2] + 1] \in Whitespace) } }

\* what the lines before line n that start with prefix name
NamedBefore(prefix, n) ==
    UNION { WordsAfterFirst(Lines[j]) : j \in {k \in 1..(n - 1) : StartsWith(Lines[k], prefix)} }

\* C5: while the body of the marker at line li is rendered, the blacklist and
\* the spoiler set are the book's initial sets plus what the directive lines
\* before li name, in whatever order those lines come; the lines after li
\* contribute nothing.
C5_AccumulatedDirectives ==
    pc \in RenderPcs =>
        /\ IsMarker(Lines[li])
        /\ blacklist = init0.blacklist \cup NamedBefore(S("#DO_NOT_RENDER"), li)
        /\ spoilers = init0.spoilers \cup NamedBefore(S("#SPOILER"), li)

\* a body is being rendered after a directive line that added to a set, with a
\* directive line still to come whose key is not in the set
C5_Witness ==
    /\ pc = "page"
    /\ blacklist # init0.blacklist
    /\ \E j \in (li + 1)..Len(Lines) :
         /\ StartsWith(Lines[j], S("#SPOILER"))
         /\ ~(WordsAfterFirst(Lines[j]) \subseteq spoilers)

\* a body has been rendered at a marker line before li
BodyRendered == pc \in {"scan", "done"} /\ \E j \in 1..(li - 1) : IsMarker(Lines[j])

\* C6 as claimed: once write_book has run, neither set changes again.
C6_ReadOnlyAfterBody ==
    [][BodyRendered => (blacklist' = blacklist /\ spoilers' = spoilers)]_vars

\* C6 as amended: the sets only grow, and only the loop iteration of
\* generate_docs on a directive line changes them, before or after a body;
\* no step of write_book does.
C6_OnlyDirectivesModify ==
    [][/\ blacklist \subseteq blacklist'
       /\ spoilers \subseteq spoilers'
       /\ (blacklist' # blacklist \/ spoilers' # spoilers) =>
            /\ pc = "scan" /\ pc' = "scan"
            /\ li <= Len(Lines) /\ IsDirective(Lines[li]) /\ li' = li + 1]_vars

\* a directive line after a rendered body has changed the blacklist
C6_Witness ==
    /\ pc \in {"scan", "done"}
    /\ \E j \in 1..(li - 1) :
         /\ IsMarker(Lines[j])
         /\ \E k \in (j + 1)..(li - 1) : StartsWith(Lines[k], S("#DO_NOT_RENDER"))
         /\ blacklist # init0.blacklist \cup NamedBefore(S("#DO_NOT_RENDER"), j)

KnownStyles ==
    {S("para"), S("color"), S("link"), S("tooltip"), S("cmd_click"), S("obf"), S("bold"),
     S("italic"), S("strikethrough"), S("underline")}

\* the style tags of a block that are neither a style of get_format nor base
RECURSIVE UnknownTags(_)
UnknownTags(block) ==
    IF IsStr(block) THEN {}
    ELSE (IF block.style.type \in KnownStyles \cup {S("base")} THEN {} ELSE {block.style.type})
         \cup UNION {UnknownTags(block.children[i]) : i \in 1..Len(block.children)}

PageOf(v) == book.categories[v.c].entries[v.e].pages[v.p]

\* the namespaces of an image page that the table of base URLs lacks
UnknownNamespaces(page) ==
    IF page.type = S("patchouli:image")
    THEN {SplitOn(img, ":")[1] : img \in Range(page.images)} \ {S("hexcasting")}
    ELSE {}

\* the unknown style tags and namespaces in what the call of an event renders
Offenders(v) ==
    CASE v.kind = "book" ->
            [tags |-> UnknownTags(book.name) \cup UnknownTags(book.landing_text), ns |-> {}]
      [] v.kind = "category" ->
            [tags |-> UnknownTags(book.categories[v.c].name)
                        \cup UnknownTags(book.categories[v.c].description), ns |-> {}]
      [] v.kind = "entry" ->
            [tags |-> UnknownTags(book.categories[v.c].entries[v.e].name), ns |-> {}]
      [] OTHER ->
            [tags |-> IF Has(PageOf(v), "text") /\ PageOf(v).type # S("patchouli:empty")
                      THEN UnknownTags(PageOf(v).text) ELSE {},
             ns |-> UnknownNamespaces(PageOf(v))]

Identifies(err, off) ==
    \/ err.exc = "ValueError" /\ \E t \in off.tags : Contains(err.arg, t)
    \/ err.exc = "KeyError" /\ err.arg \in off.ns

\* C8: when what a call renders holds an unknown style tag or an unknown image
\* namespace, generate_docs is left by an exception that names one of them, it
\* returns no value, and that call is the last thing rendered.
C8_FailFast ==
    \A k \in 1..Len(visited) :
        LET off == Offenders(visited[k])
        IN  off.tags \cup off.ns # {} =>
              /\ pc = "raised"
              /\ k = Len(visited)
              /\ ret.kind = "error"
              /\ DOMAIN ret = {"kind", "err"}
              /\ Identifies(ret.err, off)

\* generate_docs was left by the ValueError of a page's text after output was written
C8_Witness ==
    /\ pc = "raised"
    /\ ret.kind = "error"
    /\ ret.err.exc = "ValueError"
    /\ visited[Len(visited)].kind = "page"
    /\ output # <<>>

KnownPageTypes ==
    {S("patchouli:text"), S("patchouli:empty"), S("patchouli:link"), S("patchouli:spotlight"),
     S("patchouli:crafting"), S("patchouli:image"), S("hexcasting:crafting_multi"),
     S("hexcasting:brainsweep"), S("hexcasting:pattern"), S("hexcasting:manual_pattern_nosig"),
     S("hexcasting:manual_pattern")}

UnknownKind(v) == v.kind = "page" /\ PageOf(v).type \notin KnownPageTypes

\* the marker paragraph of a page type is in the body
MarkerFor(ty) ==
    \E i \in 1..(Len(Body) - 2) :
        /\ Body[i] = [k |-> "open", name |-> "p", attrs |-> <<<<S("class"), S("todo-note")>>>>]
        /\ Body[i + 1].k = "text"
        /\ Contains(Body[i + 1].txt, Escape(S("Missing processor for type: ") \o ty))
        /\ Body[i + 2] = [k |-> "close", name |-> "p"]

\* C9: a page of unknown type gets the marker paragraph; unless its text holds
\* an unknown style tag, write_page returns without an exception and the
\* rendering goes on; and a body that completes has rendered everything
\* declared after that page.
C9_UnknownKindFallback ==
    /\ pc \in RenderPcs \cup {"raised"} \/ JustRendered =>
         \A k \in 1..Len(visited) :
             UnknownKind(visited[k]) =>
                 /\ MarkerFor(PageOf(visited[k]).type)
                 /\ (k = Len(visited) /\ Offenders(visited[k]).tags = {}) =>
                      /\ pc # "raised"
                      /\ ret.kind = "none"
                      /\ stack # <<>> \/ JustRendered
    /\ JustRendered =>
         \A k \in 1..Len(Declared(blacklist)) :
             UnknownKind(Declared(blacklist)[k]) =>
                 /\ Len(visited) = Len(Declared(blacklist))
                 /\ \A m \in k..Len(visited) : visited[m] = Declared(blacklist)[m]

\* a body is complete in which the last page of an entry was of unknown type
\* and the next entry was rendered after it
C9_Witness ==
    /\ JustRendered
    /\ \E k \in 1..(Len(visited) - 1) :
         /\ UnknownKind(visited[k])
         /\ visited[k + 1].kind = "entry"


---------------------------------------------------------------------------
(* The body marker *)

\* stands for one rendered book body in the outline of an output
SplicedBody == <<"<div class=container>...</div>">>

\* The outline of an output: every element written at the top level (the
\* container div of write_book with all it holds) as SplicedBody, every piece
\* of raw text as it is; echoed directive lines are left out.
\* The tokens lo..hi are read by halves, which keeps the evaluation shallow
\* on a long output; depth is the number of tags open before lo, and the
\* result carries the number open after hi.
RECURSIVE OutlineOf(_, _, _, _)
OutlineOf(toks, lo, hi, depth) ==
    IF lo > hi THEN [items |-> <<>>, depth |-> depth]
    ELSE IF lo = hi
    THEN LET t == toks[lo]
         IN  IF IsOpen(t)
             THEN [items |-> IF depth = 0 THEN <<SplicedBody>> ELSE <<>>, depth |-> depth + 1]
             ELSE IF IsClose(t) THEN [items |-> <<>>, depth |-> depth - 1]
             ELSE IF t.k = "raw" /\ depth = 0 /\ ~IsDirective(t.txt)
                  THEN [items |-> <<t.txt>>, depth |-> depth]
                  ELSE [items |-> <<>>, depth |-> depth]
    ELSE LET mid == (lo + hi) \div 2
             left == OutlineOf(toks, lo, mid, depth)
             right == OutlineOf(toks, mid + 1, hi, left.depth)
         IN  [items |-> left.items \o right.items, depth |-> right.depth]

Outline(toks, depth) == OutlineOf(toks, 1, Len(toks), depth).items

\* The outline asked for when the lines in markers are the marker lines: a
\* body and one line terminator for each of them, every other line that is
\* not a directive as it is.
RECURSIVE MarkersReplaced(_, _)
MarkersReplaced(lines, markers) ==
    IF lines = <<>> THEN <<>>
    ELSE (IF Head(lines) \in markers THEN <<SplicedBody, S("\n")>>
          ELSE IF IsDirective(Head(lines)) THEN <<>>
          ELSE <<Head(lines)>>)
         \o MarkersReplaced(Tail(lines), markers)

\* C11 as stated: in the output generate_docs returns, every marker line of
\* the template, the last line without a line terminator included, is replaced
\* by the rendered body and one line terminator, once per marker, and a line
\* that only starts with the marker text is echoed as it is.
C11_MarkerReplaced ==
    pc = "done" =>
        Outline(ret.value, 0)
            = MarkersReplaced(Lines, {<<"#DUMP_BODY_HERE", "\n">>, <<"#DUMP_BODY_HERE">>})

\* C11 amended: in the output generate_docs returns, every line that is the
\* marker text followed by a line feed is replaced by the rendered body and
\* one line terminator, once per such line; every other line that is not a
\* directive is echoed as it is, the marker text alone on a last line without
\* line terminator and a line that only starts with the marker text included.
C11_ExactMarkerReplaced ==
    pc = "done" =>
        Outline(ret.value, 0) = MarkersReplaced(Lines, {<<"#DUMP_BODY_HERE", "\n">>})

\* generate_docs returned for a template with two marker lines and, as its
\* last line, the marker text without a line terminator
C11_Witness ==
    /\ pc = "done"
    /\ Len(Lines) = 3
    /\ IsMarker(Lines[1]) /\ IsMarker(Lines[2])
    /\ Lines[3] = <<"#DUMP_BODY_HERE">>
    /\ Count(ret.value, "raw") = 3


---------------------------------------------------------------------------
(* Properties of write_page *)

\* page.get("anchor") is truthy: the key is there and its value is not ""
Anchored(p) == Has(p, "anchor") /\ p.anchor # <<>>

\* pageid + "@" + anchor
AnchorId(pageid, p) == pageid \o S("@") \o p.anchor

\* the value of attribute key of an opening tag, "" when it has none
AttrOf(tok, key) ==
    IF \E i \in 1..Len(tok.attrs) : tok.attrs[i][1] = S(key)
    THEN Unescape(tok.attrs[CHOOSE i \in 1..Len(tok.attrs) : tok.attrs[i][1] = S(key)][2])
    ELSE <<>>

IsPermalink(tok) ==
    IsOpen(tok) /\ tok.name = "a" /\ HasAttr(tok, "title", S("Permalink"))

LineBreak == [k |-> "tag", name |-> "br", attrs |-> <<>>]

\* toks is one div with the given id around well nested contents
WrappedIn(toks, id) ==
    /\ Len(toks) >= 2
    /\ toks[1] = [k |-> "open", name |-> "div", attrs |-> <<<<S("id"), Escape(id)>>>>]
    /\ toks[Len(toks)] = [k |-> "close", name |-> "div"]
    /\ Nesting(SubSeq(toks, 2, Len(toks) - 1), <<>>) = [ok |-> TRUE, open |-> <<>>]

\* C12: when write_page returns normally, for every kind of page: the last
\* token written is the line break; what was written before it is one div
\* with id pageid@anchor around the page when the page has a non-empty anchor,
\* and holds no div with an id otherwise; a permalink is written only for a
\* page with an anchor and then points to "#" + that id; and a page with
\* nothing to show is the line break alone, inside no wrapper.
C12_AnchorWrapperAndBreak ==
    (pageRes.done /\ pageRes.err = NoErr) =>
        LET p == pageArg.page
            out == pageRes.out
            inner == SubSeq(out, 1, Len(out) - 1)
        IN  /\ Len(out) >= 1
            /\ out[Len(out)] = LineBreak
            /\ IF Anchored(p)
               THEN WrappedIn(inner, AnchorId(pageArg.pageid, p))
               ELSE /\ Nesting(inner, <<>>) = [ok |-> TRUE, open |-> <<>>]
                    /\ \A i \in 1..Len(inner) :
                         IsOpen(inner[i]) /\ inner[i].name = "div"
                             => AttrOf(inner[i], "id") = <<>>
            /\ \A i \in 1..Len(out) :
                 IsPermalink(out[i]) =>
                     /\ Anchored(p)
                     /\ AttrOf(out[i], "href") = S("#") \o AnchorId(pageArg.pageid, p)
            /\ (p.type = S("patchouli:empty") /\ ~Has(p, "title") /\ ~Has(p, "header")) =>
                 out = (IF Anchored(p)
                        THEN <<[k |-> "open", name |-> "div",
                                attrs |-> <<<<S("id"), Escape(AnchorId(pageArg.pageid, p))>>>>],
                               [k |-> "close", name |-> "div"]>>
                        ELSE <<>>) \o <<LineBreak>>

\* write_page returned normally for a page that has an anchor with a character
\* HTML escapes and a heading, so that wrapper and permalink were written, and
\* whose text ends with a line break of its own
C12_Witness ==
    /\ pageRes.done /\ pageRes.err = NoErr
    /\ pageArg.page.type = S("totally:unknown")
    /\ Has(pageArg.page, "anchor") /\ pageArg.page.anchor = <<"a", "&", "b">>
    /\ Has(pageArg.page, "header")
    /\ Has(pageArg.page, "text") /\ pageArg.page.text = Leaf(<<"line", "\n">>)
    /\ \E i \in 1..Len(pageRes.out) : IsPermalink(pageRes.out[i])


---------------------------------------------------------------------------
(* Properties of load_books *)

\* the languages _load_book was called for, in order
LoadedLangs == [k \in 1..Len(loaded) |-> loaded[k].lang]

\* C13: in load_books, when no language is requested the default language is
\* the first one processed and the first key of books; loader.export_dir is
\* None at every _load_book call but the first, and stays None from the end of
\* the first iteration on; when a language is requested, that language and no
\* other is loaded.
C13_DefaultFirstExportedOnce ==
    /\ (lang = None /\ loaded # <<>>) => loaded[1].lang = default_lang
    /\ (lang = None /\ books # <<>>) => books[1] = default_lang
    /\ \A k \in 2..Len(loaded) : loaded[k].export_dir = None
    /\ books # <<>> => export_dir = None
    /\ lang # None =>
         /\ Range(LoadedLangs) \subseteq {lang}
         /\ Len(loaded) <= 1
         /\ lpc = "done" => books = <<lang>>
    /\ (lang = None /\ lpc = "done") =>
         /\ books = LoadedLangs
         /\ Range(books) = Range(per_lang)
         /\ Len(books) = Len(per_lang)

\* load_books returned three books with no language requested, the default
\* language was not the first one found, and the loader had an export
\* directory when the first book was loaded
C13_Witness ==
    /\ lpc = "done"
    /\ lang = None
    /\ Len(books) = 3
    /\ per_lang[1] # default_lang
    /\ loaded[1].export_dir = "dir"
    /\ loaded[2].export_dir = None

=============================================================================
